---- MODULE Spec2Model ----
(***************************************************************************)
(* Watch: synchronized group playback.                                     *)
(*                                                                         *)
(* The server (rooms, membership, video pointer, playback state relay) is  *)
(* modelled from the socket.io handlers of the server source; the client   *)
(* sync engine (version gate, pending buffer, apply-lock) from script.js.  *)
(*                                                                         *)
(* Times are in tenths of a second.                                        *)
(***************************************************************************)
EXTENDS Integers, Sequences, FiniteSets, TLC

\* ------------------------------------------------------------------------
\* Universe of the model
\* ------------------------------------------------------------------------
Sockets   == {"s1", "s2"}
RoomCodes == {"r1", "r2"}
UserIds   == {"u1", "u2"}
VideoIds  == {"v1", "v2"}
\* the room code the modelled playback traffic (video-loaded, video-state-update,
\* video-control) is addressed to; the other code only takes part in membership
VideoRooms == {"r1"}
Null      == "null"

\* largest wall-clock timestamp a legacy update carries
MaxTs == 2
\* playback states logged per socket between two membership changes
MaxSeen == 2
\* largest version an inbound authoritative state or acknowledgement carries
MaxVersion == 2
\* messages in flight from the server to one client
MaxDown == 2
\* chat messages sent to one room
MaxChat == 1
\* room-state carries room.messages.slice(-50)
RoomStateMessages == 50
\* a room keeps its last 100 messages
KeptMessages == 100
\* inbound states held back by timeouts in one page
MaxTimers == 1
\* emits the control buttons of one page have scheduled and that have not run yet
MaxEmits == 1
\* the size in bytes of the largest stored file
MaxFile == 12
\* the number of chat messages sent to the room whose buffer is filled
MaxSent == 103
\* |local.currentTime - state.currentTime| > 0.35 s, in tenths of a second
DriftTolerance == 3
\* the legacy apply's threshold, timeDiff > 0.3 s, in tenths of a second
LegacyTolerance == 3
\* milliseconds the clock advances by between two calls of emitVideoControlV2
TickMs == 75
\* emitVideoControlV2 drops an emit whose key it sent less than 150 ms ago
Debounce == 150
\* the seeked listener stays silent for 250 ms after a seek was emitted
SeekDebounce == 250
\* the skip buttons move the player by 10 s, in tenths of a second
SkipTenths == 100
\* videoPlayer.duration of the library's videos, in tenths of a second
Duration == 100

VARIABLES
    rooms,      \* server: Map roomCode -> room
    users,      \* server: Map socket.id -> {userId, roomCode}
    adapter,    \* socket.io adapter: socket -> set of rooms it has joined
    status,     \* connection life cycle: "new", "open", "closed"
    last,       \* history: the last request the server handled, with what it emitted
    seen,       \* history: per socket, the senders of the playback states delivered to
                \* it since the membership of a room last changed
    cl,         \* client: per socket, the page's globals, its player and its timers
    up,         \* messages in flight from each client to the server
    down,       \* messages in flight from the server to each client
    destroyed   \* history: codes of the rooms that held chat or a video when their
                \* last user was removed, and that nobody has joined since

vars == <<rooms, users, adapter, status, last, seen, cl, up, down, destroyed>>
serverVars == <<rooms, users, adapter, status, last, seen, destroyed>>
clientVars == <<cl, up, down>>

\* ------------------------------------------------------------------------
\* Map helpers (JavaScript Map: set / delete / has)
\* ------------------------------------------------------------------------
Put(m, k, v) == [x \in DOMAIN m \cup {k} |-> IF x = k THEN v ELSE m[x]]
\* a delete that removes nothing
DelNothing(m, k) == m
Del(m, k)    == [x \in DOMAIN m \ {k} |-> m[x]]

\* room.videoState is null until a video is loaded
NoState == [none |-> TRUE]

\* getOrCreateRoom: the room object a first join creates
NewRoom(code) ==
    [code |-> code, users |-> <<>>, messages |-> <<>>,
     currentVideo |-> Null, videoState |-> NoState]

getOrCreateRoom(code) ==
    IF code \in DOMAIN rooms THEN rooms ELSE Put(rooms, code, NewRoom(code))

\* a slice that keeps every element
LastOfAll(q, n) == q
\* messages.slice(-n)
LastOf(q, n) == IF Len(q) <= n THEN q ELSE SubSeq(q, Len(q) - n + 1, Len(q))

\* the room holds chat or a video
HasContent(room) == room.messages # <<>> \/ room.currentVideo # Null

\* a filter that drops no entry
FilterNothing(us, userId) == us
\* room.users.filter(u => u.id !== userId)
FilterUsers(us, userId) == SelectSeq(us, LAMBDA u : u.id # userId)

\* a relay that does not leave the sender out
SocketToAll(ad, s, r) == {t \in Sockets : r \in ad[t]}
\* socket.to(room): every socket joined to the room except the sender
SocketTo(ad, s, r) == {t \in Sockets : r \in ad[t]} \ {s}
\* io.to(room): every socket joined to the room
IoTo(ad, r) == {t \in Sockets : r \in ad[t]}

\* room.videoState?.timestamp || 0
TimestampOf(vs) == IF "timestamp" \in DOMAIN vs THEN vs.timestamp ELSE 0

\* the version a playback state carries (the server code never writes one)
VersionOf(vs) == IF "version" \in DOMAIN vs THEN vs.version ELSE 0

\* the action a playback state names
ActionOf(vs) == IF "action" \in DOMAIN vs THEN vs.action ELSE Null

\* payloads of video-state-update that name their action: a periodic report
\* of the player's time, and a seek that says nothing about isPlaying
Reports ==
    [videoId : {"v1"}, currentTime : {10}, isPlaying : {TRUE},
     lastUpdatedBy : {"u1"}, action : {"timeupdate"}]
    \cup [videoId : {"v1"}, currentTime : {10}, lastUpdatedBy : {"u1"}, action : {"seek"}]

\* payloads of the legacy video-state-update event
VideoStates ==
    [videoId : VideoIds, currentTime : {10}, isPlaying : BOOLEAN,
     lastUpdatedBy : {"u1"}, timestamp : 1..MaxTs]
    \cup [videoId : VideoIds, currentTime : {10}, isPlaying : BOOLEAN,
          lastUpdatedBy : {"u1"}]
    \cup [videoId : VideoIds, currentTime : {10}, isPlaying : {TRUE}]

NoneSeen == [s \in Sockets |-> <<>>]

\* the page after DOMContentLoaded: syncV2 and the globals of script.js
InitClient ==
    [isConnected |-> FALSE, currentRoom |-> Null, currentVideo |-> Null,
     paused |-> TRUE, currentTime |-> 0,
     version |-> 0, applying |-> FALSE, pendingState |-> NoState,
     roomHasVideo |-> FALSE,
     lastEmitKey |-> <<>>,      \* syncV2.lastEmitKey, <<action, bucket>>
     lastEmitAge |-> Debounce,  \* Date.now() - syncV2.lastEmitAt, up to Debounce
     lastSeekAge |-> SeekDebounce,  \* Date.now() - syncV2.lastSeekEmitAt, up to SeekDebounce
     timers |-> {},
     applied |-> 0,             \* history: version of the state last written to the player
     outOfOrder |-> FALSE,      \* history: a state was written to the player whose version
                                \* is not above that of the one written before it
     staleSeen |-> FALSE,       \* history: applyVideoControlStateV2 was handed a state
                                \* whose version is not above syncV2.version
     staleChanged |-> FALSE,    \* history: such a call changed player, buffer or version
     windows |-> 0,             \* history: the 150 ms windows of applies that are still
                                \* running, where a specification counts them
     heard |-> 0,               \* history: the number of authoritative states the room
                                \* the page is in has sent it
     suppressed |-> "none",     \* history: what last found the apply-lock held and
                                \* emitted nothing, a "listener" or a "timeout"
     prevEmitKey |-> <<>>,      \* history: the key of the video-control sent before the
     prevEmitAge |-> Debounce,  \* last one, and the milliseconds since, up to Debounce
     resent |-> FALSE]          \* history: a video-control was sent less than Debounce ms
                                \* after one of the two sent before it that has its key

Init ==
    /\ rooms = <<>>
    /\ users = <<>>
    /\ adapter = [s \in Sockets |-> {}]
    /\ status = [s \in Sockets |-> "new"]
    /\ last = [ev |-> "none"]
    /\ seen = [s \in Sockets |-> <<>>]
    /\ cl = [s \in Sockets |-> InitClient]
    /\ up = [s \in Sockets |-> <<>>]
    /\ down = [s \in Sockets |-> <<>>]
    /\ destroyed = {}

\* ------------------------------------------------------------------------
\* Server handlers
\* ------------------------------------------------------------------------

\* io.on('connection')
Connect(s) ==
    /\ status[s] = "new"
    /\ status' = [status EXCEPT ![s] = "open"]
    /\ last' = [ev |-> "connection"]
    /\ UNCHANGED <<rooms, users, adapter, seen, destroyed>>

\* a slice of the oldest messages of the room
OldestMessages(room) ==
    IF Len(room.messages) <= RoomStateMessages THEN room.messages
    ELSE SubSeq(room.messages, 1, RoomStateMessages)

\* room.messages.slice(-50)
RecentMessages(room) == LastOf(room.messages, RoomStateMessages)

\* the three messages of join-room with the count sent ahead of the room state
JoinEmitsCountFirst(s, ad, r, room, us, user) ==
    << [ev |-> "user-count-update", to |-> IoTo(ad, r), count |-> Len(us)],
       [ev |-> "room-state", to |-> {s}, users |-> us,
        messages |-> RecentMessages(room),
        currentVideo |-> room.currentVideo, videoState |-> room.videoState],
       [ev |-> "user-joined", to |-> SocketTo(ad, s, r),
        user |-> user, userCount |-> Len(us)] >>

\* what join-room sends, in the order it sends it: socket.emit('room-state'),
\* socket.to(roomCode).emit('user-joined'), io.to(roomCode).emit('user-count-update')
JoinEmits(s, ad, r, room, us, user) ==
    << [ev |-> "room-state", to |-> {s}, users |-> us,
        messages |-> RecentMessages(room),
        currentVideo |-> room.currentVideo, videoState |-> room.videoState],
       [ev |-> "user-joined", to |-> SocketTo(ad, s, r),
        user |-> user, userCount |-> Len(us)],
       [ev |-> "user-count-update", to |-> IoTo(ad, r), count |-> Len(us)] >>

\* socket.on('join-room')
JoinRoom(s, r, u) ==
    /\ status[s] = "open"
    /\ LET rs    == getOrCreateRoom(r)
           room  == rs[r]
           user  == [id |-> u, socketId |-> s]
           us    == Append(FilterUsers(room.users, u), user)
           ad    == [adapter EXCEPT ![s] = @ \cup {r}]
       IN /\ rooms' = [rs EXCEPT ![r].users = us]
          /\ users' = Put(users, s, [userId |-> u, roomCode |-> r])
          /\ adapter' = ad
          /\ last' = [ev |-> "join-room", socket |-> s, room |-> r, userId |-> u,
                      recreated |-> r \in destroyed,
                      emits |-> JoinEmits(s, ad, r, room, us, user)]
    /\ seen' = NoneSeen
    /\ destroyed' = destroyed \ {r}
    /\ UNCHANGED status

\* socket.on('leave-room')
LeaveRoom(s, r, u) ==
    /\ status[s] = "open"
    /\ IF r \in DOMAIN rooms
       THEN LET us == FilterUsers(rooms[r].users, u)
                ad == [adapter EXCEPT ![s] = @ \ {r}]
            IN /\ rooms' = IF Len(us) = 0 THEN Del(rooms, r)
                           ELSE [rooms EXCEPT ![r].users = us]
               /\ users' = Del(users, s)
               /\ adapter' = ad
               /\ destroyed' = IF Len(us) = 0 /\ HasContent(rooms[r])
                                THEN destroyed \cup {r} ELSE destroyed
               /\ last' = [ev |-> "leave-room", socket |-> s, room |-> r, userId |-> u,
                           emits |-> << [ev |-> "user-left", to |-> SocketTo(ad, s, r),
                                         userId |-> u, userCount |-> Len(us)],
                                        [ev |-> "user-count-update", to |-> IoTo(ad, r),
                                         count |-> Len(us)] >>]
       ELSE /\ last' = [ev |-> "leave-room", socket |-> s, room |-> r, userId |-> u,
                        emits |-> <<>>]
            /\ UNCHANGED <<rooms, users, adapter, destroyed>>
    /\ seen' = NoneSeen
    /\ UNCHANGED status

\* socket.on('disconnect'): socket.io has already removed the socket from
\* every adapter room when the handler runs
Disconnect(s) ==
    /\ status[s] = "open"
    /\ status' = [status EXCEPT ![s] = "closed"]
    /\ LET ad == [adapter EXCEPT ![s] = {}]
       IN /\ adapter' = ad
          /\ IF s \in DOMAIN users /\ users[s].roomCode \in DOMAIN rooms
             THEN LET u  == users[s].userId
                      r  == users[s].roomCode
                      us == FilterUsers(rooms[r].users, u)
                  IN /\ rooms' = IF Len(us) = 0 THEN Del(rooms, r)
                                 ELSE [rooms EXCEPT ![r].users = us]
                     /\ users' = Del(users, s)
                     /\ destroyed' = IF Len(us) = 0 /\ HasContent(rooms[r])
                                      THEN destroyed \cup {r} ELSE destroyed
                     /\ last' = [ev |-> "disconnect", socket |-> s, room |-> r,
                                 userId |-> u,
                                 emits |-> << [ev |-> "user-left", to |-> SocketTo(ad, s, r),
                                               userId |-> u, userCount |-> Len(us)],
                                              [ev |-> "user-count-update", to |-> IoTo(ad, r),
                                               count |-> Len(us)] >>]
             ELSE /\ last' = [ev |-> "disconnect", socket |-> s, room |-> Null,
                              userId |-> Null, emits |-> <<>>]
                  /\ UNCHANGED <<rooms, users, destroyed>>
    /\ seen' = NoneSeen

\* a truncation that drops the newest messages
TruncateNewest(messages) ==
    IF Len(messages) > KeptMessages THEN SubSeq(messages, 1, KeptMessages) ELSE messages

\* if (room.messages.length > 100) room.messages = room.messages.slice(-100)
Truncate(messages) ==
    IF Len(messages) > KeptMessages THEN LastOf(messages, KeptMessages) ELSE messages

\* a lookup that creates the room it does not find
RoomsGetOrCreate(r) == getOrCreateRoom(r)

\* the registry after rooms.get(roomCode), which creates nothing
RoomsGet(r) == rooms

\* socket.on('chat-message')
ChatMessage(s, r, u, message) ==
    /\ status[s] = "open"
    /\ LET rs == RoomsGet(r)
       IN IF r \in DOMAIN rs
          THEN LET messageObj == [userId |-> u, message |-> message]
               IN /\ rooms' = [rs EXCEPT ![r].messages =
                                    Truncate(Append(@, messageObj))]
                  /\ last' = [ev |-> "chat-message", socket |-> s, room |-> r,
                              before |-> Len(rs[r].messages),
                              emits |-> << [ev |-> "chat-message", to |-> IoTo(adapter, r),
                                            message |-> messageObj] >>]
          ELSE /\ last' = [ev |-> "chat-message", socket |-> s, room |-> r, emits |-> <<>>]
               /\ UNCHANGED rooms
    /\ UNCHANGED <<users, adapter, status, seen, destroyed>>

\* a playback state that keeps playing where it should be reset
ResetToPlaying(v, u) ==
    [videoId |-> v, currentTime |-> 0, isPlaying |-> TRUE, lastUpdatedBy |-> u]

\* the playback state video-loaded resets the room to
ResetPlayback(v, u) ==
    [videoId |-> v, currentTime |-> 0, isPlaying |-> FALSE, lastUpdatedBy |-> u]

\* whether a room's playback state says playing
IsPlaying(vs) == "isPlaying" \in DOMAIN vs /\ vs.isPlaying

\* socket.on('video-loaded')
VideoLoaded(s, r, u, v) ==
    /\ status[s] = "open"
    /\ IF r \in DOMAIN rooms
       THEN /\ rooms' = [rooms EXCEPT ![r].currentVideo = v,
                                      ![r].videoState = ResetPlayback(v, u)]
            /\ last' = [ev |-> "video-loaded", socket |-> s, room |-> r,
                        video |-> v, userId |-> u,
                        wasPlaying |-> IsPlaying(rooms[r].videoState),
                        accepted |-> TRUE, acked |-> FALSE,
                        emits |-> << [ev |-> "video-loaded", to |-> SocketTo(adapter, s, r),
                                      video |-> v, userId |-> u] >>]
       ELSE /\ last' = [ev |-> "video-loaded", socket |-> s, room |-> r,
                        accepted |-> FALSE, acked |-> FALSE, emits |-> <<>>]
            /\ UNCHANGED rooms
    /\ UNCHANGED <<users, adapter, status, seen, destroyed>>

\* socket.on('video-loaded') on a message without a video: the handler assigns
\* room.currentVideo = video, which is undefined, and then throws at video.id,
\* before the playback state is written and before anything is emitted.
\* Nothing in the server catches what a listener throws: either the runtime
\* contains the error and the server goes on (exits = FALSE), or the process
\* ends with every room and connection it held (exits = TRUE)
VideoLoadedNoVideo(s, r, u, exits) ==
    /\ status[s] = "open"
    /\ IF r \in DOMAIN rooms
       THEN /\ last' = [ev |-> "video-loaded", socket |-> s, room |-> r,
                        accepted |-> FALSE, acked |-> FALSE, threw |-> TRUE,
                        exited |-> exits, emits |-> <<>>]
            /\ IF exits
               THEN /\ rooms' = <<>>
                    /\ users' = <<>>
                    /\ adapter' = [t \in Sockets |-> {}]
                    /\ status' = [t \in Sockets |->
                                     IF status[t] = "open" THEN "closed" ELSE status[t]]
               ELSE /\ rooms' = [rooms EXCEPT ![r].currentVideo = Null]
                    /\ UNCHANGED <<users, adapter, status>>
       ELSE /\ last' = [ev |-> "video-loaded", socket |-> s, room |-> r,
                        accepted |-> FALSE, acked |-> FALSE, threw |-> FALSE,
                        exited |-> FALSE, emits |-> <<>>]
            /\ UNCHANGED <<rooms, users, adapter, status>>
    /\ UNCHANGED <<seen, destroyed>>

\* socket.on('video-state-update'); now is the server's Date.now()
VideoStateUpdate(s, r, videoState, now) ==
    /\ status[s] = "open"
    /\ \A t \in Sockets : Len(seen[t]) < MaxSeen
    /\ LET valid == /\ r \in DOMAIN rooms
                    /\ rooms[r].currentVideo # Null
                    /\ videoState # NoState
                    /\ "lastUpdatedBy" \in DOMAIN videoState
           currentTimestamp == TimestampOf(rooms[r].videoState)
           newTimestamp == IF TimestampOf(videoState) # 0 THEN videoState.timestamp ELSE now
           accept == valid /\ newTimestamp >= currentTimestamp
       IN IF accept
             THEN /\ rooms' = [rooms EXCEPT ![r].videoState = videoState]
                  /\ last' = [ev |-> "video-state-update", socket |-> s, room |-> r,
                              videoId |-> videoState.videoId,
                              action |-> ActionOf(videoState),
                              accepted |-> TRUE, acked |-> FALSE,
                              emits |-> << [ev |-> "video-state-update",
                                            to |-> SocketTo(adapter, s, r),
                                            videoState |-> videoState] >>]
                  /\ seen' = [t \in Sockets |->
                                IF t \in SocketTo(adapter, s, r)
                                THEN Append(seen[t], s) ELSE seen[t]]
             ELSE /\ last' = [ev |-> "video-state-update", socket |-> s, room |-> r,
                              videoId |-> IF "videoId" \in DOMAIN videoState
                                          THEN videoState.videoId ELSE Null,
                              action |-> ActionOf(videoState),
                              accepted |-> FALSE, acked |-> FALSE, emits |-> <<>>]
                  /\ UNCHANGED <<rooms, seen>>
    /\ UNCHANGED <<users, adapter, status, destroyed>>

\* A 'video-control' event: the connection handler registers no listener for
\* it, so socket.io discards the event and never calls the acknowledgement
VideoControl(s, r, v) ==
    /\ status[s] = "open"
    /\ last' = [ev |-> "video-control", socket |-> s, room |-> r, videoId |-> v,
                accepted |-> FALSE, acked |-> FALSE, emits |-> <<>>]
    /\ UNCHANGED <<rooms, users, adapter, status, seen, destroyed>>

\* app.get('/api/room/:roomCode')
GetRoom(r) ==
    /\ last' = IF r \in DOMAIN rooms
               THEN [ev |-> "GET /api/room", room |-> r, status |-> 200,
                     userCount |-> Len(rooms[r].users),
                     currentVideo |-> rooms[r].currentVideo]
               ELSE [ev |-> "GET /api/room", room |-> r, status |-> 404]
    /\ UNCHANGED <<rooms, users, adapter, status, seen, destroyed>>

\* ------------------------------------------------------------------------
\* Video streaming: app.get('/api/video/:filename')
\* ------------------------------------------------------------------------

\* the byte the stored files hold at an offset
ByteAt(k) == (k * 37 + 11) % 256

\* the sizes of the stored files
FileSizes == {1, 2, MaxFile}

\* the uploads directory: the file named n holds n bytes
Uploads == [n \in FileSizes |-> [i \in 1..n |-> ByteAt(i - 1)]]

\* the byte offsets a request names
Offsets == 0..(MaxFile + 1)

\* the characters of the decimal digits
DigitChar == <<"0", "1", "2", "3", "4", "5", "6", "7", "8", "9">>

\* a number as template literals and browsers write it
RECURSIVE ToText(_)
ToText(n) == IF n < 10 THEN <<DigitChar[n + 1]>>
             ELSE Append(ToText(n \div 10), DigitChar[(n % 10) + 1])

\* the Range header of a request for the bytes from a on, or from a to b
RangeHeader(range) ==
    <<"bytes=">> \o ToText(range.start) \o <<"-">>
       \o (IF "end" \in DOMAIN range THEN ToText(range.end) ELSE <<>>)

\* the requests for a range: from an offset on, or from an offset to an offset
Ranges == [start : Offsets] \cup [start : Offsets, end : Offsets]

\* range.replace(/bytes=/, "")
StripUnit(h) == IF \E i \in 1..Len(h) : h[i] = "bytes="
                THEN LET i == CHOOSE x \in 1..Len(h) :
                                 h[x] = "bytes=" /\ \A y \in 1..(x - 1) : h[y] # "bytes="
                     IN SubSeq(h, 1, i - 1) \o SubSeq(h, i + 1, Len(h))
                ELSE h

\* .split("-")
RECURSIVE Split(_)
Split(q) == IF \E i \in 1..Len(q) : q[i] = "-"
            THEN LET i == CHOOSE x \in 1..Len(q) :
                             q[x] = "-" /\ \A y \in 1..(x - 1) : q[y] # "-"
                 IN <<SubSeq(q, 1, i - 1)>> \o Split(SubSeq(q, i + 1, Len(q)))
            ELSE <<q>>

\* parseInt(text, 10) of a text of digits; NaN for the empty text
RECURSIVE parseInt(_)
parseInt(text) ==
    IF text = <<>> THEN "NaN"
    ELSE LET d == CHOOSE x \in 0..9 : DigitChar[x + 1] = text[Len(text)]
         IN IF Len(text) = 1 THEN d
            ELSE parseInt(SubSeq(text, 1, Len(text) - 1)) * 10 + d

\* a chunk size that leaves the last byte of the range out
ChunkSizeExclusive(start, end) == end - start

\* const chunksize = (end - start) + 1
ChunkSize(start, end) == (end - start) + 1

\* what fs.createReadStream(filePath, {start, end}) delivers: the bytes of the
\* file from offset start to offset end, or to the end of the file
ReadStream(file, start, end) ==
    IF start >= Len(file) THEN <<>>
    ELSE SubSeq(file, start + 1, (IF end < Len(file) THEN end ELSE Len(file) - 1) + 1)

\* the handler on a stored file and a Range header; fs.createReadStream throws
\* when start is above end, before any header is written, and express answers
\* a handler that throws with 500
StreamRange(file, header) ==
    LET fileSize == Len(file)
        parts == Split(StripUnit(header))
        start == parseInt(parts[1])
        end   == IF Len(parts) > 1 /\ parts[2] # <<>> THEN parseInt(parts[2])
                 ELSE fileSize - 1
    IN IF start > end
       THEN [status |-> 500]
       ELSE [status |-> 206,
             contentRange |-> <<"bytes", " ">> \o ToText(start) \o <<"-">> \o ToText(end)
                                 \o <<"/">> \o ToText(fileSize),
             contentLength |-> ChunkSize(start, end),
             body |-> ReadStream(file, start, end)]

\* app.get('/api/video/:filename') with a Range header
GetVideoRange(filename, range) ==
    /\ last' = IF filename \in DOMAIN Uploads
               THEN [ev |-> "GET /api/video", filename |-> filename, range |-> range,
                     res |-> StreamRange(Uploads[filename], RangeHeader(range))]
               ELSE [ev |-> "GET /api/video", filename |-> filename, range |-> range,
                     res |-> [status |-> 404]]
    /\ UNCHANGED <<rooms, users, adapter, status, seen, destroyed>>

\* app.get('/api/video/:filename') without a Range header
GetVideo(filename) ==
    /\ last' = IF filename \in DOMAIN Uploads
               THEN [ev |-> "GET /api/video", filename |-> filename,
                     res |-> [status |-> 200,
                              contentLength |-> Len(Uploads[filename]),
                              body |-> Uploads[filename]]]
               ELSE [ev |-> "GET /api/video", filename |-> filename,
                     res |-> [status |-> 404]]
    /\ UNCHANGED <<rooms, users, adapter, status, seen, destroyed>>

\* ------------------------------------------------------------------------
\* Client (script.js)
\* ------------------------------------------------------------------------

\* the userId a page keeps in localStorage
userId(c) == IF c = "s1" THEN "u1" ELSE "u2"

HasVersion(state) == "version" \in DOMAIN state

Abs(x) == IF x < 0 THEN -x ELSE x

\* The authoritative history of a room under protocol v2: the state the
\* sequencer assigned version n to.  The videos alternate and play / pause
\* change every second version, so that every combination occurs.
Authoritative(n) ==
    [version |-> n, videoId |-> IF n % 2 = 1 THEN "v1" ELSE "v2",
     currentTime |-> 10, isPlaying |-> (n % 4) \in {0, 1}]

\* what a page can be sent out of that history, duplicated and in any order
V2States == {Authoritative(n) : n \in 1..MaxVersion}

\* the authoritative history of a room that stays on one video
OneVideoState(n) == [Authoritative(n) EXCEPT !.videoId = "v1"]

OneVideoStates == {OneVideoState(n) : n \in 1..MaxVersion}

\* what an inbound state may touch
Core(k) == <<k.version, k.pendingState, k.paused, k.currentTime, k.applying, k.timers>>

\* the gate against the locally observed version, read with < in place of <=
VersionGateLax(k, state) == HasVersion(state) /\ state.version < k.version

\* typeof state.version === 'number' && state.version <= syncV2.version
VersionGate(k, state) == HasVersion(state) /\ state.version <= k.version

\* the body of applyVideoControlStateV2 (syncV2.enabled is constantly true)
ApplyBody(k, state) ==
    IF state = NoState THEN k
    ELSE IF VersionGate(k, state) THEN k
    ELSE LET k1 == IF HasVersion(state) THEN [k EXCEPT !.version = state.version] ELSE k
         IN IF k1.currentVideo = Null \/ k1.currentVideo # state.videoId
            THEN [k1 EXCEPT !.pendingState = state]
            ELSE [k1 EXCEPT
                    !.applying = TRUE,
                    !.currentTime = IF Abs(@ - state.currentTime) > DriftTolerance
                                    THEN state.currentTime ELSE @,
                    !.paused = ~state.isPlaying,
                    !.timers = @ \cup {[kind |-> "release"]},
                    !.applied = IF HasVersion(state) THEN state.version ELSE @,
                    !.outOfOrder = @ \/ (HasVersion(state) /\ state.version <= k.applied)]

\* whether applyVideoControlStateV2 on this state reaches its try block
ReachesTry(k, state) ==
    /\ state # NoState
    /\ ~VersionGate(k, state)
    /\ k.currentVideo # Null /\ k.currentVideo = state.videoId

\* an apply in which the player throws and nothing releases the lock
ApplyThrowingNoFinally(k, state, at) ==
    IF ~ReachesTry(k, state) THEN ApplyBody(k, state)
    ELSE [k EXCEPT !.version = IF HasVersion(state) THEN state.version ELSE @,
                   !.applying = TRUE]

\* applyVideoControlStateV2 when the player throws in the try block, at the
\* assignment of currentTime or at pause() / play(): the finally block still
\* sets the timeout that releases the lock, and the exception leaves the handler
ApplyThrowing(k, state, at) ==
    IF ~ReachesTry(k, state) THEN ApplyBody(k, state)
    ELSE [k EXCEPT !.version = IF HasVersion(state) THEN state.version ELSE @,
                   !.applying = TRUE,
                   !.currentTime = IF at = "play" /\ Abs(@ - state.currentTime) > DriftTolerance
                                   THEN state.currentTime ELSE @,
                   !.timers = @ \cup {[kind |-> "release"]}]

\* applyVideoControlStateV2, with the history of what it did to a stale state
applyVideoControlStateV2(k, state) ==
    LET k2    == ApplyBody(k, state)
        stale == state # NoState /\ HasVersion(state) /\ state.version <= k.version
    IN [k2 EXCEPT !.staleSeen = @ \/ stale,
                  !.staleChanged = @ \/ (stale /\ Core(k2) # Core(k))]

tryApplyPendingStateV2(k) ==
    IF /\ k.pendingState # NoState
       /\ k.currentVideo # Null
       /\ k.pendingState.videoId = k.currentVideo
    THEN applyVideoControlStateV2([k EXCEPT !.pendingState = NoState], k.pendingState)
    ELSE k

joinRoomSocket(c, k, roomCode) ==
    IF k.isConnected
    THEN << [ev |-> "join-room", roomCode |-> roomCode, userId |-> userId(c)] >>
    ELSE <<>>

shareVideoToRoom(c, k, v) ==
    IF k.currentRoom = Null \/ ~k.isConnected THEN <<>>
    ELSE joinRoomSocket(c, k, k.currentRoom)
         \o << [ev |-> "video-loaded", roomCode |-> k.currentRoom,
                userId |-> userId(c), video |-> v] >>

\* emitVideoControlV2, without its time-based debounce; the payload's protocol,
\* currentTime and clientSentAt are read by nothing in this model
emitVideoControlV2(c, k, action) ==
    IF k.currentRoom = Null \/ ~k.isConnected \/ k.currentVideo = Null THEN <<>>
    ELSE joinRoomSocket(c, k, k.currentRoom)
         \o (IF ~k.roomHasVideo THEN shareVideoToRoom(c, k, k.currentVideo) ELSE <<>>)
         \o << [ev |-> "video-control", roomCode |-> k.currentRoom,
                userId |-> userId(c), videoId |-> k.currentVideo, action |-> action,
                isPlaying |-> IF action = "play" THEN TRUE
                              ELSE IF action = "pause" THEN FALSE ELSE ~k.paused] >>

\* emitIfUser of setupVideoSyncV2; the listeners exist once the room interface
\* has been shown
emitIfUser(c, k, action) ==
    IF k.applying THEN <<>>
    ELSE IF k.currentRoom = Null \/ ~k.isConnected \/ k.currentVideo = Null THEN <<>>
    ELSE emitVideoControlV2(c, k, action)

\* `${action}:${Math.floor(t * 10)}`, the player's time being in tenths of a second
EmitKey(k, action) == <<action, k.currentTime>>

\* now - syncV2.lastEmitAt < 150 && syncV2.lastEmitKey === key
Debounced(k, key) == k.lastEmitAge < Debounce /\ k.lastEmitKey = key

\* emitVideoControlV2 on the page's clock: the page it leaves and what it emits
emitVideoControlV2Debounced(c, k, action) ==
    LET key == EmitKey(k, action)
    IN IF k.currentRoom = Null \/ ~k.isConnected \/ k.currentVideo = Null
       THEN [page |-> k, msgs |-> <<>>]
       ELSE IF Debounced(k, key) THEN [page |-> k, msgs |-> <<>>]
       ELSE [page |-> [k EXCEPT !.lastEmitAge = 0, !.lastEmitKey = key],
             msgs |-> emitVideoControlV2(c, k, action)]

\* a listener or timeout found syncV2.applying set while the page could emit
Suppress(k, what) ==
    IF k.currentRoom = Null \/ ~k.isConnected \/ k.currentVideo = Null THEN k
    ELSE [k EXCEPT !.suppressed = what]

\* emitIfUser on the page's clock
emitIfUserDebounced(c, k, action) ==
    IF k.applying THEN [page |-> Suppress(k, "listener"), msgs |-> <<>>]
    ELSE IF k.currentRoom = Null \/ ~k.isConnected \/ k.currentVideo = Null
         THEN [page |-> k, msgs |-> <<>>]
    ELSE emitVideoControlV2Debounced(c, k, action)

\* the 'seeked' listener of setupVideoSyncV2
onSeeked(c, k) ==
    IF k.applying THEN [page |-> Suppress(k, "listener"), msgs |-> <<>>]
    ELSE IF k.lastSeekAge < SeekDebounce THEN [page |-> k, msgs |-> <<>>]
    ELSE emitIfUserDebounced(c, [k EXCEPT !.lastSeekAge = 0], "seek")

\* the timeouts of the buttons, run without a look at the apply-lock
ScheduledEmitUnlocked(c, k, t) ==
    IF t.kind = "emitSeek"
    THEN emitVideoControlV2Debounced(c, [k EXCEPT !.lastSeekAge = 0], "seek")
    ELSE emitVideoControlV2Debounced(c, k, t.action)

\* the timeouts togglePlayPause ("emit") and the skip buttons ("emitSeek") set
ScheduledEmit(c, k, t) ==
    IF k.applying THEN [page |-> Suppress(k, "timeout"), msgs |-> <<>>]
    ELSE IF t.kind = "emitSeek"
         THEN emitVideoControlV2Debounced(c, [k EXCEPT !.lastSeekAge = 0], "seek")
    ELSE IF k.currentRoom = Null \/ ~k.isConnected \/ k.currentVideo = Null
         THEN [page |-> k, msgs |-> <<>>]
    ELSE emitVideoControlV2Debounced(c, k, t.action)

\* loadVideo: the player is paused and reset on the new source, which later
\* fires loadedmetadata
loadVideo(k, v) ==
    [k EXCEPT !.paused = TRUE, !.currentVideo = v, !.currentTime = 0,
              !.timers = @ \cup {[kind |-> "loadedmetadata"]}]

\* loadVideoFromServer calls loadVideo(videoObject, false)
loadVideoFromServer(k, v) == loadVideo(k, v)

\* the legacy applyVideoState, for a state without action and timestamp
applyVideoState(c, k, videoState) ==
    IF videoState = NoState THEN k
    ELSE IF videoState.lastUpdatedBy = userId(c) THEN k
    ELSE IF k.currentVideo = Null THEN k
    ELSE IF k.currentVideo # videoState.videoId THEN k
    ELSE [k EXCEPT
            !.currentTime = IF Abs(@ - videoState.currentTime) > LegacyTolerance
                            THEN videoState.currentTime ELSE @,
            !.paused = ~videoState.isPlaying]

\* the play / pause event the legacy apply causes is not covered by the apply-lock
LegacyEcho(c, k, k2) ==
    IF k2.paused = k.paused THEN <<>>
    ELSE emitIfUser(c, k2, IF k2.paused THEN "pause" ELSE "play")

\* socket.on('video-control')
OnVideoControl(k, state) == tryApplyPendingStateV2(applyVideoControlStateV2(k, state))

\* socket.on('video-loaded'): data.state is NoState when the server sends none
OnVideoLoaded(k, video, state) ==
    LET k1 == [k EXCEPT !.roomHasVideo = TRUE]
        k2 == IF k1.currentVideo = Null \/ k1.currentVideo # video
              THEN loadVideoFromServer(k1, video) ELSE k1
    IN IF state # NoState /\ HasVersion(state)
       THEN [k2 EXCEPT !.timers = @ \cup {[kind |-> "applyLoaded", state |-> state]}]
       ELSE k2

\* socket.on('room-state')
OnRoomState(k, currentVideo, videoState) ==
    IF currentVideo # Null
    THEN [k EXCEPT !.timers = @ \cup {[kind |-> "roomStateLoad", video |-> currentVideo,
                                        videoState |-> videoState]}]
    ELSE k

\* after a timeout or media event t of the page has run
AfterTimer(c, k, t) ==
    LET k0 == [k EXCEPT !.timers = @ \ {t}]
    IN CASE t.kind = "release" ->
                \* the record stands for every release that is pending
                [k0 EXCEPT !.applying = FALSE,
                           !.timers = IF k.windows > 1 THEN @ \cup {t} ELSE @,
                           !.windows = IF @ > 0 THEN @ - 1 ELSE 0]
         [] t.kind \in {"emit", "emitSeek"} -> ScheduledEmit(c, k0, t).page
         [] t.kind = "loadedmetadata" ->
                IF k0.currentRoom # Null THEN tryApplyPendingStateV2(k0) ELSE k0
         [] t.kind = "applyLoaded" ->
                tryApplyPendingStateV2(applyVideoControlStateV2(k0, t.state))
         [] t.kind = "roomStateLoad" ->
                LET k1 == loadVideoFromServer(k0, t.video)
                IN IF t.videoState = NoState THEN k1
                   ELSE [k1 EXCEPT !.timers = @ \cup
                            {[kind |-> "roomStateApply", videoState |-> t.videoState,
                              again |-> TRUE]}]
         [] t.kind = "roomStateApply" ->
                LET k1 == IF t.again
                          THEN [k0 EXCEPT !.timers = @ \cup {[t EXCEPT !.again = FALSE]}]
                          ELSE k0
                IN IF HasVersion(t.videoState)
                   THEN applyVideoControlStateV2([k1 EXCEPT !.roomHasVideo = TRUE],
                                                 t.videoState)
                   ELSE applyVideoState(c, k1, t.videoState)

\* what the page emits when timer t runs
TimerEmits(c, k, t) ==
    IF t.kind = "roomStateApply" /\ ~HasVersion(t.videoState)
    THEN LegacyEcho(c, [k EXCEPT !.timers = @ \ {t}], AfterTimer(c, k, t))
    ELSE IF t.kind \in {"emit", "emitSeek"}
    THEN ScheduledEmit(c, [k EXCEPT !.timers = @ \ {t}], t).msgs
    ELSE <<>>

\* the timeouts that hold an inbound state back before it is applied
Delayed(k) == {t \in k.timers : t.kind \in {"applyLoaded", "roomStateLoad", "roomStateApply"}}

\* the page holds at most MaxTimers inbound states back at a time
TimersOk(k) == Cardinality(Delayed(k)) <= MaxTimers

\* what one handler run emits goes on the wire together; the page emits again
\* once the wire from it is empty
Send(c, msgs) ==
    /\ msgs # <<>> => up[c] = <<>>
    /\ up' = [up EXCEPT ![c] = @ \o msgs]

\* a timeout or a media event of the page runs
FireTimer(c, t) ==
    /\ t \in cl[c].timers
    /\ TimersOk(AfterTimer(c, cl[c], t))
    /\ cl' = [cl EXCEPT ![c] = AfterTimer(c, cl[c], t)]
    /\ Send(c, TimerEmits(c, cl[c], t))
    /\ UNCHANGED <<serverVars, down>>

\* the transport connects: io.on('connection') on the server, socket.on('connect')
\* in the page, which is in no room yet
ClientConnect(c) ==
    /\ Connect(c)
    /\ cl' = [cl EXCEPT ![c].isConnected = TRUE]
    /\ UNCHANGED <<up, down>>

\* proceedJoinRoom, from the join form that is shown while the page is in no room
UIJoinRoom(c, r) ==
    /\ cl[c].isConnected
    /\ cl[c].currentRoom = Null
    /\ cl' = [cl EXCEPT ![c].currentRoom = r]
    /\ Send(c, joinRoomSocket(c, cl[c], r))
    /\ UNCHANGED <<serverVars, down>>

\* a library card is clicked: loadVideo(video), which shares the video to the room
UILoadVideo(c, v) ==
    /\ TimersOk(loadVideo(cl[c], v))
    /\ cl' = [cl EXCEPT ![c] = loadVideo(cl[c], v)]
    /\ Send(c, shareVideoToRoom(c, cl[c], v))
    /\ UNCHANGED <<serverVars, down>>

\* the user starts the player with its native controls: the 'play' listener runs
NativePlay(c) ==
    /\ cl[c].currentVideo # Null
    /\ cl[c].paused
    /\ cl' = [cl EXCEPT ![c].paused = FALSE]
    /\ Send(c, emitIfUser(c, cl[c], "play"))
    /\ UNCHANGED <<serverVars, down>>

\* the user pauses the player with its native controls: the 'pause' listener runs
NativePause(c) ==
    /\ cl[c].currentVideo # Null
    /\ ~cl[c].paused
    /\ cl' = [cl EXCEPT ![c].paused = TRUE]
    /\ Send(c, emitIfUser(c, cl[c], "pause"))
    /\ UNCHANGED <<serverVars, down>>

\* leaveRoomSocket
leaveRoomSocket(c, k) ==
    IF k.isConnected /\ k.currentRoom # Null
    THEN << [ev |-> "leave-room", roomCode |-> k.currentRoom, userId |-> userId(c)] >>
    ELSE <<>>

\* leaveRoom: the room and the video are forgotten and the player is emptied;
\* syncV2 is left as it is
leaveRoom(k) ==
    IF k.currentVideo # Null
    THEN [k EXCEPT !.currentRoom = Null, !.currentVideo = Null,
                   !.paused = TRUE, !.currentTime = 0]
    ELSE [k EXCEPT !.currentRoom = Null]

\* the leave button; the next room the page joins has sent it nothing yet
UILeaveRoom(c) ==
    /\ cl[c].currentRoom # Null
    /\ cl' = [cl EXCEPT ![c] = [leaveRoom(cl[c]) EXCEPT !.heard = 0]]
    /\ Send(c, leaveRoomSocket(c, cl[c]))
    /\ UNCHANGED <<serverVars, down>>

\* the room the page is in, which numbers its states from 1, sends the page its
\* next state as a video-control
EnvNextControl(c) ==
    /\ cl[c].isConnected
    /\ cl[c].currentRoom # Null
    /\ cl[c].heard < MaxVersion
    /\ cl' = [cl EXCEPT ![c] = [OnVideoControl(cl[c], OneVideoState(cl[c].heard + 1))
                                    EXCEPT !.heard = @ + 1]]
    /\ UNCHANGED <<serverVars, up, down>>

\* a video-control arrives at a page whose apply windows are counted: the
\* state is written to the player exactly when the version written last changes
EnvControlInWindow(c, state) ==
    LET k == OnVideoControl(cl[c], state)
    IN /\ cl[c].isConnected
       /\ TimersOk(k)
       /\ cl' = [cl EXCEPT ![c] = [k EXCEPT !.windows = IF k.applied # cl[c].applied
                                                        THEN @ + 1 ELSE @]]
       /\ UNCHANGED <<serverVars, up, down>>

\* the play / pause button: the player is toggled, its 'play' or 'pause'
\* listener runs, and the emit is repeated by a timeout
togglePlayPause(c, k) ==
    LET action == IF k.paused THEN "play" ELSE "pause"
    IN emitIfUserDebounced(c, [k EXCEPT !.paused = ~@,
                                        !.timers = @ \cup {[kind |-> "emit",
                                                            action |-> action]}],
                           action)

\* skipForward / skipBackward: the player is moved to time to, a timeout is set
\* to emit the seek unless the apply-lock is held, and the 'seeked' listener runs
skipTo(c, k, to) ==
    onSeeked(c, [k EXCEPT !.currentTime = to,
                          !.timers = IF k.currentRoom # Null /\ k.isConnected
                                        /\ k.currentVideo # Null /\ ~k.applying
                                     THEN @ \cup {[kind |-> "emitSeek"]} ELSE @])

\* the emits the control buttons have scheduled
Scheduled(k) == {t \in k.timers : t.kind \in {"emit", "emitSeek"}}

\* the custom controls are shown once a video is loaded; a button is pressed
\* while at most MaxEmits scheduled emits are left afterwards
Control(c, r) ==
    /\ cl[c].currentVideo # Null
    /\ Cardinality(Scheduled(r.page)) <= MaxEmits
    /\ cl' = [cl EXCEPT ![c] = r.page]
    /\ Send(c, r.msgs)
    /\ UNCHANGED <<serverVars, down>>

TogglePlayPause(c) == Control(c, togglePlayPause(c, cl[c]))

SkipForward(c) ==
    Control(c, skipTo(c, cl[c], IF cl[c].currentTime + SkipTenths < Duration
                                THEN cl[c].currentTime + SkipTenths ELSE Duration))

SkipBackward(c) ==
    Control(c, skipTo(c, cl[c], IF cl[c].currentTime - SkipTenths > 0
                                THEN cl[c].currentTime - SkipTenths ELSE 0))

\* A call site calls emitVideoControlV2(action); the history keeps the emit
\* before the last one and notes an emit that repeats a recent key
CallEmit(c, action) ==
    LET k   == cl[c]
        r   == emitVideoControlV2Debounced(c, k, action)
        key == EmitKey(k, action)
    IN /\ cl' = [cl EXCEPT ![c] =
                    IF r.msgs = <<>> THEN r.page
                    ELSE [r.page EXCEPT
                            !.prevEmitAge = k.lastEmitAge,
                            !.prevEmitKey = k.lastEmitKey,
                            !.resent = @ \/ Debounced(k, key)
                                         \/ (k.prevEmitAge < Debounce
                                             /\ k.prevEmitKey = key)]]
       /\ Send(c, r.msgs)
       /\ UNCHANGED <<serverVars, down>>

\* an age ms milliseconds later, ages being counted up to top
Aged(age, ms, top) == IF age + ms < top THEN age + ms ELSE top

\* ms milliseconds pass on the page's clock; a key that has aged out of the
\* debounce window matches no emit any more and is dropped
Tick(c, ms) ==
    LET k == cl[c]
        age  == Aged(k.lastEmitAge, ms, Debounce)
        prev == Aged(k.prevEmitAge, ms, Debounce)
    IN /\ k.lastEmitAge < Debounce \/ k.lastSeekAge < SeekDebounce
       /\ cl' = [cl EXCEPT ![c].lastEmitAge = age,
                           ![c].lastEmitKey = IF age < Debounce THEN @ ELSE <<>>,
                           ![c].lastSeekAge = Aged(@, ms, SeekDebounce),
                           ![c].prevEmitAge = prev,
                           ![c].prevEmitKey = IF prev < Debounce THEN @ ELSE <<>>]
       /\ UNCHANGED <<serverVars, up, down>>

\* --- the pages and the server of this repository, connected ---

\* the emits of the handled request that socket s is sent and its page has a
\* listener with an effect on the player for
Deliveries(lst, s) ==
    IF "emits" \in DOMAIN lst
    THEN SelectSeq(lst.emits,
                   LAMBDA e : s \in e.to /\ e.ev \in {"room-state", "video-loaded",
                                                      "video-state-update"})
    ELSE <<>>

\* the server takes the oldest message of socket c off the wire and runs its handler
ServerStep(c) ==
    /\ up[c] # <<>>
    /\ LET m == Head(up[c])
       IN CASE m.ev = "join-room" -> JoinRoom(c, m.roomCode, m.userId)
            [] m.ev = "video-loaded" -> VideoLoaded(c, m.roomCode, m.userId, m.video)
            [] m.ev = "video-control" -> VideoControl(c, m.roomCode, m.videoId)
    /\ up' = [up EXCEPT ![c] = Tail(@)]
    /\ down' = [s \in Sockets |-> down[s] \o Deliveries(last', s)]
    /\ \A s \in Sockets : Len(down'[s]) <= MaxDown
    /\ UNCHANGED cl

\* the page of socket c handles the oldest message sent to it
ClientRecv(c) ==
    /\ down[c] # <<>>
    /\ LET m == Head(down[c])
           k == CASE m.ev = "room-state" -> OnRoomState(cl[c], m.currentVideo, m.videoState)
                  [] m.ev = "video-loaded" -> OnVideoLoaded(cl[c], m.video, NoState)
                  \* socket.on('video-state-update') returns at once: syncV2.enabled
                  [] m.ev = "video-state-update" -> cl[c]
       IN /\ TimersOk(k)
          /\ cl' = [cl EXCEPT ![c] = k]
    /\ down' = [down EXCEPT ![c] = Tail(@)]
    /\ UNCHANGED <<serverVars, up>>

\* --- the network of a client under test: any v2 traffic, in any order ---

EnvVideoControl(c, state) ==
    /\ cl[c].isConnected
    /\ TimersOk(OnVideoControl(cl[c], state))
    /\ cl' = [cl EXCEPT ![c] = OnVideoControl(cl[c], state)]
    /\ UNCHANGED <<serverVars, up, down>>

EnvVideoLoaded(c, video, state) ==
    /\ cl[c].isConnected
    /\ TimersOk(OnVideoLoaded(cl[c], video, state))
    /\ cl' = [cl EXCEPT ![c] = OnVideoLoaded(cl[c], video, state)]
    /\ UNCHANGED <<serverVars, up, down>>

EnvRoomState(c, currentVideo, videoState) ==
    /\ cl[c].isConnected
    /\ cl[c].currentRoom # Null
    /\ TimersOk(OnRoomState(cl[c], currentVideo, videoState))
    /\ cl' = [cl EXCEPT ![c] = OnRoomState(cl[c], currentVideo, videoState)]
    /\ UNCHANGED <<serverVars, up, down>>

\* a video-control arrives and the player throws while it is applied; the
\* page's console records the error
EnvVideoControlThrows(c, state, at) ==
    /\ cl[c].isConnected
    /\ ReachesTry(cl[c], state)
    /\ cl' = [cl EXCEPT ![c] = ApplyThrowing(cl[c], state, at)]
    /\ last' = [ev |-> "apply-threw", socket |-> c]
    /\ UNCHANGED <<rooms, users, adapter, status, seen, destroyed, up, down>>

\* the acknowledgement callback of video-control and video-loaded
OnAck(k, m, ack) ==
    IF ~ack.ok THEN k
    ELSE LET k1 == IF m.ev = "video-loaded" THEN [k EXCEPT !.roomHasVideo = TRUE] ELSE k
         IN [k1 EXCEPT !.version = IF @ >= ack.version THEN @ ELSE ack.version]

\* the oldest message in flight reaches a v2 server, which acknowledges it
EnvAck(c, ack) ==
    /\ up[c] # <<>>
    /\ Head(up[c]).ev \in {"video-control", "video-loaded"}
    /\ cl' = [cl EXCEPT ![c] = OnAck(cl[c], Head(up[c]), ack)]
    /\ up' = [up EXCEPT ![c] = Tail(@)]
    /\ UNCHANGED <<serverVars, down>>

\* the oldest message in flight is taken off the wire and never acknowledged
EnvTake(c) ==
    /\ up[c] # <<>>
    /\ up' = [up EXCEPT ![c] = Tail(@)]
    /\ UNCHANGED <<serverVars, cl, down>>

\* ------------------------------------------------------------------------
\* Specifications
\* ------------------------------------------------------------------------

\* The room registry under any membership traffic over both room codes
Next ==
    \/ \E s \in Sockets : Connect(s) /\ UNCHANGED clientVars
    \/ \E s \in Sockets, r \in RoomCodes, u \in UserIds :
          JoinRoom(s, r, u) /\ UNCHANGED clientVars
    \/ \E s \in Sockets, r \in RoomCodes, u \in UserIds :
          LeaveRoom(s, r, u) /\ UNCHANGED clientVars
    \/ \E s \in Sockets : Disconnect(s) /\ UNCHANGED clientVars
    \/ \E r \in RoomCodes : GetRoom(r) /\ UNCHANGED clientVars

Spec == Init /\ [][Next]_vars

\* The playback relay of one room under any membership and playback traffic
PlaybackNext ==
    \/ \E s \in Sockets : Connect(s) /\ UNCHANGED clientVars
    \/ \E s \in Sockets, r \in VideoRooms, u \in UserIds :
          JoinRoom(s, r, u) /\ UNCHANGED clientVars
    \/ \E s \in Sockets, r \in VideoRooms, u \in UserIds :
          LeaveRoom(s, r, u) /\ UNCHANGED clientVars
    \/ \E s \in Sockets : Disconnect(s) /\ UNCHANGED clientVars
    \/ \E s \in Sockets, r \in VideoRooms, u \in UserIds, v \in VideoIds :
          VideoLoaded(s, r, u, v) /\ UNCHANGED clientVars
    \/ \E s \in Sockets, r \in VideoRooms, vs \in VideoStates \cup {NoState} :
          \E now \in (IF TimestampOf(vs) = 0 THEN 1..MaxTs ELSE {MaxTs}) :
              VideoStateUpdate(s, r, vs, now) /\ UNCHANGED clientVars
    \/ \E s \in Sockets, r \in VideoRooms, v \in VideoIds :
          VideoControl(s, r, v) /\ UNCHANGED clientVars

PlaybackSpec == Init /\ [][PlaybackNext]_vars

\* The playback relay of one room under updates that name their action
ReportNext ==
    \/ \E s \in Sockets : Connect(s) /\ UNCHANGED clientVars
    \/ \E s \in Sockets, r \in VideoRooms, u \in UserIds :
          JoinRoom(s, r, u) /\ UNCHANGED clientVars
    \/ \E s \in Sockets, r \in VideoRooms, u \in UserIds, v \in VideoIds :
          VideoLoaded(s, r, u, v) /\ UNCHANGED clientVars
    \/ \E s \in Sockets, r \in VideoRooms, vs \in Reports :
          VideoStateUpdate(s, r, vs, MaxTs) /\ UNCHANGED clientVars

ReportSpec == Init /\ [][ReportNext]_vars

\* whether room r, if it exists, holds fewer than n chat messages
ChatRoomBelow(r, n) == r \in DOMAIN rooms => Len(rooms[r].messages) < n

\* The life of one room code: members, chat and video
ChatTexts == {"hello"}

LifecycleNext ==
    \/ \E s \in Sockets : Connect(s) /\ UNCHANGED clientVars
    \/ \E s \in Sockets, r \in VideoRooms, u \in UserIds :
          JoinRoom(s, r, u) /\ UNCHANGED clientVars
    \/ \E s \in Sockets, r \in VideoRooms, u \in UserIds :
          LeaveRoom(s, r, u) /\ UNCHANGED clientVars
    \/ \E s \in Sockets : Disconnect(s) /\ UNCHANGED clientVars
    \/ \E s \in Sockets, r \in VideoRooms, u \in UserIds, m \in ChatTexts :
          ChatRoomBelow(r, MaxChat) /\ ChatMessage(s, r, u, m) /\ UNCHANGED clientVars
    \/ \E s \in Sockets, r \in VideoRooms, u \in UserIds, v \in VideoIds :
          VideoLoaded(s, r, u, v) /\ UNCHANGED clientVars

LifecycleSpec == Init /\ [][LifecycleNext]_vars

\* the text of the next chat message of a sender that numbers its messages
NextText(r) ==
    IF r \in DOMAIN rooms /\ rooms[r].messages # <<>>
    THEN rooms[r].messages[Len(rooms[r].messages)].message + 1
    ELSE 1

\* One room's chat under as many chat-message operations as it takes to fill
\* the buffer and go past it
ChatNext ==
    \/ \E s \in Sockets : Connect(s) /\ UNCHANGED clientVars
    \/ \E s \in Sockets : JoinRoom(s, "r1", userId(s)) /\ UNCHANGED clientVars
    \/ \E s \in Sockets :
          /\ NextText("r1") <= MaxSent
          /\ ChatMessage(s, "r1", "u1", NextText("r1")) /\ UNCHANGED clientVars

\* One room that joins create, and every other message addressed to it and to
\* a room code nobody joins
RegistryNext ==
    \/ \E s \in Sockets : Connect(s) /\ UNCHANGED clientVars
    \/ \E s \in Sockets, r \in VideoRooms, u \in UserIds :
          JoinRoom(s, r, u) /\ UNCHANGED clientVars
    \/ \E s \in Sockets, r \in RoomCodes, u \in UserIds :
          LeaveRoom(s, r, u) /\ UNCHANGED clientVars
    \/ \E s \in Sockets : Disconnect(s) /\ UNCHANGED clientVars
    \/ \E s \in Sockets, r \in RoomCodes, m \in ChatTexts :
          ChatRoomBelow(r, MaxChat) /\ ChatMessage(s, r, userId(s), m)
             /\ UNCHANGED clientVars
    \/ \E s \in Sockets, r \in RoomCodes, v \in VideoIds :
          VideoLoaded(s, r, userId(s), v) /\ UNCHANGED clientVars
    \/ \E s \in Sockets, r \in RoomCodes, vs \in Reports :
          VideoStateUpdate(s, r, vs, MaxTs) /\ UNCHANGED clientVars

RegistrySpec == Init /\ [][RegistryNext]_vars

ChatSpec == Init /\ [][ChatNext]_vars

\* payloads of video-state-update without a state or without lastUpdatedBy
MalformedStates ==
    {NoState} \cup [videoId : VideoIds, currentTime : {10}, isPlaying : {TRUE}]

\* One room under well-formed joins, chat and video loads and under
\* video-loaded and video-state-update messages that lack a required part
MalformedNext ==
    \/ \E s \in Sockets : Connect(s) /\ UNCHANGED clientVars
    \/ \E s \in Sockets, r \in VideoRooms, u \in UserIds :
          JoinRoom(s, r, u) /\ UNCHANGED clientVars
    \/ \E s \in Sockets, r \in VideoRooms, u \in UserIds, m \in ChatTexts :
          ChatRoomBelow(r, MaxChat) /\ ChatMessage(s, r, u, m) /\ UNCHANGED clientVars
    \/ \E s \in Sockets, r \in VideoRooms, u \in UserIds, v \in VideoIds :
          VideoLoaded(s, r, u, v) /\ UNCHANGED clientVars
    \/ \E s \in Sockets, r \in VideoRooms, u \in UserIds, exits \in BOOLEAN :
          VideoLoadedNoVideo(s, r, u, exits) /\ UNCHANGED clientVars
    \/ \E s \in Sockets, r \in VideoRooms, vs \in MalformedStates :
          VideoStateUpdate(s, r, vs, MaxTs) /\ UNCHANGED clientVars

MalformedSpec == Init /\ [][MalformedNext]_vars

\* The streaming endpoint under requests for every stored file and one that is
\* not stored, with and without a range
StreamNext ==
    \/ \E f \in FileSizes \cup {0}, range \in Ranges :
          GetVideoRange(f, range) /\ UNCHANGED clientVars
    \/ \E f \in FileSizes \cup {0} : GetVideo(f) /\ UNCHANGED clientVars

StreamSpec == Init /\ [][StreamNext]_vars

\* One page (script.js) facing a network that speaks protocol v2
ClientUnderTest == "s1"

ClientNext ==
    \/ ClientConnect(ClientUnderTest)
    \/ \E r \in VideoRooms : UIJoinRoom(ClientUnderTest, r)
    \/ \E v \in VideoIds : UILoadVideo(ClientUnderTest, v)
    \/ NativePlay(ClientUnderTest)
    \/ NativePause(ClientUnderTest)
    \/ \E t \in cl[ClientUnderTest].timers : FireTimer(ClientUnderTest, t)
    \/ \E st \in V2States : EnvVideoControl(ClientUnderTest, st)
    \/ \E st \in V2States : EnvVideoLoaded(ClientUnderTest, st.videoId, st)
    \/ \E v \in VideoIds : EnvVideoLoaded(ClientUnderTest, v, NoState)
    \/ \E st \in V2States : EnvRoomState(ClientUnderTest, st.videoId, st)
    \/ \E ver \in 1..MaxVersion : EnvAck(ClientUnderTest, [ok |-> TRUE, version |-> ver])
    \/ EnvTake(ClientUnderTest)

ClientSpec == Init /\ [][ClientNext]_vars

\* One page facing a network that speaks protocol v2, without the user at the
\* player: the page's own play and pause write neither syncV2.version nor the
\* pending state nor what is applied
GateNext ==
    \/ ClientConnect(ClientUnderTest)
    \/ \E r \in VideoRooms : UIJoinRoom(ClientUnderTest, r)
    \/ \E v \in VideoIds : UILoadVideo(ClientUnderTest, v)
    \/ \E t \in cl[ClientUnderTest].timers : FireTimer(ClientUnderTest, t)
    \/ \E st \in V2States : EnvVideoControl(ClientUnderTest, st)
    \/ \E st \in V2States : EnvVideoLoaded(ClientUnderTest, st.videoId, st)
    \/ \E v \in VideoIds : EnvVideoLoaded(ClientUnderTest, v, NoState)
    \/ \E st \in V2States : EnvRoomState(ClientUnderTest, st.videoId, st)
    \/ \E ver \in 1..MaxVersion : EnvAck(ClientUnderTest, [ok |-> TRUE, version |-> ver])
    \/ EnvTake(ClientUnderTest)

GateSpec == Init /\ [][GateNext]_vars

\* One page whose player may throw while a state is applied; a timeout that
\* has been set runs
LockNext ==
    \/ ClientConnect(ClientUnderTest)
    \/ \E r \in VideoRooms : UIJoinRoom(ClientUnderTest, r)
    \/ UILoadVideo(ClientUnderTest, "v1")
    \/ NativePlay(ClientUnderTest)
    \/ NativePause(ClientUnderTest)
    \/ \E t \in cl[ClientUnderTest].timers : FireTimer(ClientUnderTest, t)
    \/ \E st \in OneVideoStates : EnvVideoControl(ClientUnderTest, st)
    \/ \E st \in OneVideoStates, at \in {"currentTime", "play"} :
          EnvVideoControlThrows(ClientUnderTest, st, at)
    \/ EnvTake(ClientUnderTest)

LockSpec ==
    /\ Init /\ [][LockNext]_vars
    /\ WF_vars(FireTimer(ClientUnderTest, [kind |-> "release"]))

\* One page with its controls, in a room that stays on one video and speaks
\* protocol v2; the page is used in bursts that are SeekDebounce ms or more apart
ControlNext ==
    \/ ClientConnect(ClientUnderTest)
    \/ \E r \in VideoRooms : UIJoinRoom(ClientUnderTest, r)
    \/ UILoadVideo(ClientUnderTest, "v1")
    \/ TogglePlayPause(ClientUnderTest)
    \/ SkipForward(ClientUnderTest)
    \/ SkipBackward(ClientUnderTest)
    \/ Tick(ClientUnderTest, SeekDebounce)
    \/ \E t \in cl[ClientUnderTest].timers : FireTimer(ClientUnderTest, t)
    \/ \E st \in OneVideoStates : EnvControlInWindow(ClientUnderTest, st)
    \/ EnvTake(ClientUnderTest)

ControlSpec == Init /\ [][ControlNext]_vars

\* The debounce of emitVideoControlV2 under calls at any time of the page's clock
EmitActions == {"play", "pause", "seek"}

DebounceNext ==
    \/ ClientConnect(ClientUnderTest)
    \/ \E r \in VideoRooms : UIJoinRoom(ClientUnderTest, r)
    \/ \E v \in VideoIds : UILoadVideo(ClientUnderTest, v)
    \/ \E a \in EmitActions : CallEmit(ClientUnderTest, a)
    \/ Tick(ClientUnderTest, TickMs)
    \/ \E t \in cl[ClientUnderTest].timers : FireTimer(ClientUnderTest, t)
    \/ EnvTake(ClientUnderTest)

DebounceSpec == Init /\ [][DebounceNext]_vars

\* One page that joins and leaves rooms; each room it joins is a fresh one
\* that speaks protocol v2, stays on one video and sends its states in order
RejoinNext ==
    \/ ClientConnect(ClientUnderTest)
    \/ \E r \in VideoRooms : UIJoinRoom(ClientUnderTest, r)
    \/ UILoadVideo(ClientUnderTest, "v1")
    \/ UILeaveRoom(ClientUnderTest)
    \/ EnvNextControl(ClientUnderTest)
    \/ \E t \in cl[ClientUnderTest].timers : FireTimer(ClientUnderTest, t)
    \/ EnvTake(ClientUnderTest)

RejoinSpec == Init /\ [][RejoinNext]_vars

\* The pages of this repository against the server of this repository.  Every
\* page connects and joins; the pages of Operators pick videos and play and
\* pause them, the other pages watch.
Operators == {"s1"}

SyncNext ==
    \/ \E c \in Sockets : ClientConnect(c)
    \/ \E c \in Sockets, r \in VideoRooms : UIJoinRoom(c, r)
    \/ \E c \in Operators, v \in VideoIds : UILoadVideo(c, v)
    \/ \E c \in Operators : NativePlay(c)
    \/ \E c \in Operators : NativePause(c)
    \/ \E c \in Sockets : \E t \in cl[c].timers : FireTimer(c, t)
    \/ \E c \in Sockets : ServerStep(c)
    \/ \E c \in Sockets : ClientRecv(c)

SyncSpec == Init /\ [][SyncNext]_vars

\* ------------------------------------------------------------------------
\* Properties of the room life cycle
\* ------------------------------------------------------------------------

\* C11: the first join-room after a room that held chat or a video lost its last
\* user is answered with the room-state of a fresh room: no chat, no current
\* video, no playback state (version 0), and the registry holds such a room.
C11_FreshRoomAfterDestroy ==
    (last.ev = "join-room" /\ last.recreated) =>
        /\ last.emits[1].ev = "room-state"
        /\ last.emits[1].messages = <<>>
        /\ last.emits[1].currentVideo = Null
        /\ last.emits[1].videoState = NoState
        /\ VersionOf(last.emits[1].videoState) = 0
        /\ Len(last.emits[1].users) = 1

\* somebody has joined a code whose former room held chat or a video
C11_Witness ==
    /\ last.ev = "join-room"
    /\ last.recreated
    /\ last.room \in DOMAIN rooms
    /\ rooms[last.room].messages = <<>>

\* ------------------------------------------------------------------------
\* Properties of the client
\* ------------------------------------------------------------------------

Quiescent ==
    \A c \in Sockets : up[c] = <<>> /\ down[c] = <<>> /\ cl[c].timers = {}

\* the pages whose connection is listed in room r
Members(r) == {rooms[r].users[i].socketId : i \in 1..Len(rooms[r].users)}

\* C3: once the controls the members issued have reached the server and every
\* message and timeout has been handled, each member's player holds the video
\* and the play / pause state of the room's playback state (and its position
\* within the tolerance).
C3_Convergence ==
    (Quiescent /\ last.ev = "video-control") =>
        \A r \in DOMAIN rooms : \A c \in Members(r) :
            rooms[r].videoState # NoState =>
                /\ cl[c].currentVideo = rooms[r].videoState.videoId
                /\ cl[c].paused = ~rooms[r].videoState.isPlaying
                /\ Abs(cl[c].currentTime - rooms[r].videoState.currentTime) <= DriftTolerance

\* ------------------------------------------------------------------------
\* Properties of the server
\* ------------------------------------------------------------------------

\* the step handled a playback control (either protocol) or a video-loaded
\* that the server accepted
AcceptedPlaybackStep ==
    /\ last'.ev \in {"video-state-update", "video-control", "video-loaded"}
    /\ last'.accepted

\* the rooms in whose member list socket s / user u is listed
RoomsListingSocket(s) ==
    {r \in DOMAIN rooms : \E i \in 1..Len(rooms[r].users) : rooms[r].users[i].socketId = s}
RoomsListingUser(u) ==
    {r \in DOMAIN rooms : \E i \in 1..Len(rooms[r].users) : rooms[r].users[i].id = u}

\* C2: every accepted playback control and every video-loaded increases the
\* room's playback version by exactly 1.
C2_VersionBumpedByOne ==
    [][AcceptedPlaybackStep =>
          VersionOf(rooms'[last'.room].videoState)
              = VersionOf(rooms[last'.room].videoState) + 1]_vars

\* C4: a playback control whose videoId differs from the room's playback
\* videoId changes no room and is broadcast to no one.
C4_MismatchRejected ==
    [][(/\ last'.ev \in {"video-state-update", "video-control"}
        /\ last'.room \in DOMAIN rooms
        /\ rooms[last'.room].videoState # NoState
        /\ last'.videoId # rooms[last'.room].videoState.videoId)
       => (rooms' = rooms /\ last'.emits = <<>>)]_vars

\* C5: whenever a room has a current video, its playback state is bound to
\* that video.
C5_PlaybackBoundToCurrentVideo ==
    \A r \in DOMAIN rooms :
        rooms[r].currentVideo # Null
            => (/\ rooms[r].videoState # NoState
                /\ rooms[r].videoState.videoId = rooms[r].currentVideo)

\* C6: the members of a room have been delivered the same playback states in
\* the same order (the order in which the server processed them), the
\* originators included.
C6_SameBroadcastOrder ==
    \A r \in DOMAIN rooms : \A s, t \in IoTo(adapter, r) : seen[s] = seen[t]

\* C7: an accepted control is broadcast to every member of the room, the
\* originator included, and is acknowledged to the originator.
C7_BroadcastIncludesOriginator ==
    (last.ev \in {"video-state-update", "video-control"} /\ last.accepted)
        => (/\ last.acked
            /\ \E i \in 1..Len(last.emits) :
                   last.emits[i].to = IoTo(adapter, last.room) \cup {last.socket})

\* C8: an accepted video-state-update is relayed to exactly the other
\* connections of the room, never to the connection that sent it.
C8_RelayExcludesSender ==
    (last.ev = "video-state-update" /\ last.accepted)
        => (/\ Len(last.emits) = 1
            /\ last.emits[1].ev = "video-state-update"
            /\ last.emits[1].to = IoTo(adapter, last.room) \ {last.socket}
            /\ last.socket \notin last.emits[1].to)

\* C8 witness: an update from a member of a room that has another member
C8_Witness ==
    /\ last.ev = "video-state-update"
    /\ last.accepted
    /\ last.socket \in IoTo(adapter, last.room)
    /\ last.emits[1].to # {}

\* C9: every connection and every userId is listed as a member of at most
\* one room.
C9_AtMostOneRoom ==
    /\ \A s \in Sockets : Cardinality(RoomsListingSocket(s)) <= 1
    /\ \A u \in UserIds : Cardinality(RoomsListingUser(u)) <= 1

\* C10: no room without a member exists in the registry: every registered
\* room lists at least one member whose connection has not disconnected, and
\* GET /api/room answers 404 exactly for the codes that are not registered.
C10_NoEmptyRoom ==
    /\ \A r \in DOMAIN rooms :
          \E i \in 1..Len(rooms[r].users) : status[rooms[r].users[i].socketId] = "open"
    /\ last.ev = "GET /api/room" => (last.status = 404 <=> last.room \notin DOMAIN rooms)

\* ------------------------------------------------------------------------
\* Properties of the page's controls and its apply-lock
\* ------------------------------------------------------------------------

\* C12: while syncV2.applying is set the page emits no video-control: a step
\* that puts a video-control on the wire starts and ends with the apply-lock
\* released, whichever listener, button or timeout runs in it.
C12_NoEmitWhileApplying ==
    [][\A c \in Sockets :
          (/\ Len(up'[c]) > Len(up[c])
           /\ \E i \in 1..Len(up'[c]) : up'[c][i].ev = "video-control")
          => (~cl[c].applying /\ ~cl'[c].applying)]_vars

\* a timeout that a button set has run while the apply-lock was held, nothing
\* is on the wire and the lock is still held
C12_Witness ==
    \E c \in Sockets :
        /\ cl[c].applying
        /\ cl[c].suppressed = "timeout"
        /\ Scheduled(cl[c]) = {}
        /\ up[c] = <<>>

\* C13: the apply-lock is held for as long as the 150 ms window of an apply is
\* running, also the window of a state applied while an earlier one was
\* running: while a window is running, syncV2.applying is set.
C13_LockHeldForWindow ==
    \A c \in Sockets : cl[c].windows > 0 => cl[c].applying

\* C14: a state for a video the page has not loaded is kept as the one pending
\* state, a newer one replacing an older one; when the pending state is taken
\* out of the buffer, its video being loaded, the player has been written a
\* state at least as new, and if that is the pending state the player's
\* play / pause and time follow it.
C14_PendingApplied ==
    [][\A c \in Sockets :
          LET p == cl[c].pendingState
              q == cl'[c].pendingState
          IN /\ (p # NoState /\ q # NoState) => q.version >= p.version
             /\ (p # NoState /\ q = NoState) =>
                   /\ cl'[c].applied >= p.version
                   /\ cl'[c].applied = p.version =>
                         /\ cl'[c].paused = ~p.isPlaying
                         /\ Abs(cl'[c].currentTime - p.currentTime) <= DriftTolerance]_vars

\* C15: the page never sends two video-control payloads with the same action
\* and the same 100 ms bucket of currentTime less than 150 ms apart, also when
\* a payload with another key is sent between the two.
C15_NoRepeatWithinDebounce ==
    \A c \in Sockets : ~cl[c].resent

\* C16: a page follows every state its room sends it, each newer than the one
\* before, once the state's video is loaded, also in a room that numbers its
\* states from the start again and that the page joined after it had seen
\* higher versions in the room it left.
C16_ResyncAfterRejoin ==
    [][\A c \in Sockets :
          (/\ cl'[c].heard = cl[c].heard + 1
           /\ cl[c].currentVideo = OneVideoState(cl'[c].heard).videoId)
          => /\ cl'[c].paused = ~OneVideoState(cl'[c].heard).isPlaying
             /\ Abs(cl'[c].currentTime - OneVideoState(cl'[c].heard).currentTime)
                   <= DriftTolerance]_vars

\* ------------------------------------------------------------------------
\* Properties of the server's playback handlers
\* ------------------------------------------------------------------------

\* C17: a state report whose action is timeupdate is not accepted: it is not
\* stored as the room's playback state and it is relayed to nobody.
C17_TimeupdateIgnored ==
    (last.ev = "video-state-update" /\ last.action = "timeupdate")
        => (~last.accepted /\ last.emits = <<>>)

\* C18: after an accepted play, pause or seek the room's playback state has
\* isPlaying true for a play, false for a pause and, for a seek that carries
\* none, the isPlaying of the state before.  (currentTime and lastUpdatedBy
\* are the payload's own fields, which the handler stores as they come.)
C18_ControlSemantics ==
    [][(/\ last'.ev \in {"video-state-update", "video-control"}
        /\ last'.accepted
        /\ last'.action \in {"play", "pause", "seek"})
       => LET new == rooms'[last'.room].videoState
              old == rooms[last'.room].videoState
          IN /\ "isPlaying" \in DOMAIN new
             /\ last'.action = "play" => new.isPlaying
             /\ last'.action = "pause" => ~new.isPlaying
             /\ (last'.action = "seek" /\ "isPlaying" \in DOMAIN old)
                   => new.isPlaying = old.isPlaying]_vars

\* C19: a video-loaded for an existing room, whatever the room's state before,
\* makes the descriptor the room's current video and resets its playback state
\* to that video at time 0, paused, last updated by the user the message names.
C19_VideoLoadedResets ==
    (last.ev = "video-loaded" /\ last.room \in DOMAIN rooms)
        => /\ last.accepted
           /\ rooms[last.room].currentVideo = last.video
           /\ rooms[last.room].videoState.videoId = last.video
           /\ rooms[last.room].videoState.currentTime = 0
           /\ rooms[last.room].videoState.isPlaying = FALSE
           /\ rooms[last.room].videoState.lastUpdatedBy = last.userId

\* a video-loaded has replaced the video of a room that was playing another one
C19_Witness ==
    /\ last.ev = "video-loaded"
    /\ last.accepted
    /\ last.wasPlaying
    /\ last.room \in DOMAIN rooms
    /\ rooms[last.room].currentVideo = "v2"

\* C20: an accepted video-loaded is broadcast to every member of the room but
\* the sender, the broadcast carries the descriptor and the new playback state,
\* and the sender is acknowledged.
C20_VideoLoadedBroadcastAndAck ==
    (last.ev = "video-loaded" /\ last.accepted)
        => /\ last.acked
           /\ Len(last.emits) = 1
           /\ last.emits[1].ev = "video-loaded"
           /\ last.emits[1].to = SocketTo(adapter, last.socket, last.room)
           /\ last.emits[1].video = last.video
           /\ "state" \in DOMAIN last.emits[1]

\* ------------------------------------------------------------------------
\* Membership messages and chat
\* ------------------------------------------------------------------------

\* the positions in a handler's messages of the events named ev
PositionsOf(emits, ev) == {i \in 1..Len(emits) : emits[i].ev = ev}

\* C21: of the messages a join-room sends, the first is room-state, sent to
\* the joiner alone and listing the joiner itself with the room's current video
\* and playback; user-joined and user-count-update come after it; and
\* user-joined goes to every other socket of the room and never to the joiner.
C21_RoomStateFirst ==
    last.ev = "join-room" =>
        /\ PositionsOf(last.emits, "room-state") = {1}
        /\ last.emits[1].to = {last.socket}
        /\ \E i \in 1..Len(last.emits[1].users) :
              last.emits[1].users[i] = [id |-> last.userId, socketId |-> last.socket]
        /\ last.emits[1].users = rooms[last.room].users
        /\ last.emits[1].currentVideo = rooms[last.room].currentVideo
        /\ last.emits[1].videoState = rooms[last.room].videoState
        /\ PositionsOf(last.emits, "user-joined") # {}
        /\ \A i \in PositionsOf(last.emits, "user-joined") :
              /\ i > 1
              /\ last.socket \notin last.emits[i].to
              /\ last.emits[i].to = IoTo(adapter, last.room) \ {last.socket}
              /\ last.emits[i].user.id = last.userId
        /\ \A i \in PositionsOf(last.emits, "user-count-update") : i > 1

\* a join into a room where another socket is present, which is told of it
C21_Witness ==
    /\ last.ev = "join-room"
    /\ \E i \in PositionsOf(last.emits, "user-joined") :
          last.emits[i].to # {} /\ last.socket \notin last.emits[i].to
    /\ \E i \in PositionsOf(last.emits, "user-count-update") :
          last.socket \in last.emits[i].to

\* whether a member list has an entry of this userId
Lists(us, u) == \E i \in 1..Len(us) : us[i].id = u

\* C22: a join-room of a userId the room already lists leaves the member
\* count as it was and sends user-joined to no peer.
C22_RejoinSilent ==
    [][(/\ last'.ev = "join-room"
        /\ last'.room \in DOMAIN rooms
        /\ Lists(rooms[last'.room].users, last'.userId))
       => /\ Len(rooms'[last'.room].users) = Len(rooms[last'.room].users)
          /\ \A i \in PositionsOf(last'.emits, "user-joined") :
                last'.emits[i].to = {}]_vars

\* the entries of a member list
Entries(us) == {us[i] : i \in 1..Len(us)}

\* C23: after every step each room's list has at most one entry per userId;
\* a join-room leaves the entry of its userId naming the joining connection,
\* and no other step adds or changes an entry, so the entry of a userId is
\* always that of the latest join of the userId into the room.
C23_OneEntryPerUser ==
    [][\A r \in DOMAIN rooms' :
          LET us == rooms'[r].users
          IN /\ \A i, j \in 1..Len(us) : us[i].id = us[j].id => i = j
             /\ \A e \in Entries(us) :
                   IF last'.ev = "join-room" /\ last'.room = r /\ last'.userId = e.id
                   THEN e.socketId = last'.socket
                   ELSE r \in DOMAIN rooms /\ e \in Entries(rooms[r].users)]_vars

\* a userId joined from one connection and then from another, whose entry now
\* names the second
C23_Witness ==
    \E r \in DOMAIN rooms, s \in DOMAIN users :
        /\ users[s].roomCode = r
        /\ Len(rooms[r].users) = 2
        /\ \E e \in Entries(rooms[r].users) :
              /\ e.id = users[s].userId /\ e.socketId # s
              /\ last.ev = "join-room" /\ last.socket = e.socketId /\ last.userId = e.id

\* whether connection t joined room r with a userId that has since joined r
\* from another connection: t is the prior connection of that userId
Superseded(t, r) ==
    /\ status[t] = "open"
    /\ t \in DOMAIN users /\ users[t].roomCode = r
    /\ r \in DOMAIN rooms
    /\ \E e \in Entries(rooms[r].users) : e.id = users[t].userId /\ e.socketId # t

\* C24: no chat-message, video-loaded or playback state a room broadcasts is
\* sent to the prior connection of a userId that re-joined the room from a new
\* connection.
C24_PriorConnectionEvicted ==
    last.ev \in {"chat-message", "video-loaded", "video-state-update"} =>
        \A i \in 1..Len(last.emits) :
            \A t \in last.emits[i].to : ~Superseded(t, last.room)

\* whether a member list has an entry of this connection
ListsSocket(us, s) == \E e \in Entries(us) : e.socketId = s

\* C25: when a connection closes, every room that listed it no longer lists
\* it, and the members that remain in such a room are sent user-left with the
\* number of members the room now has.
C25_DisconnectRemovesMember ==
    [][last'.ev = "disconnect" =>
         \A r \in DOMAIN rooms :
            ListsSocket(rooms[r].users, last'.socket) =>
               \/ r \notin DOMAIN rooms'
               \/ /\ ~ListsSocket(rooms'[r].users, last'.socket)
                  /\ last'.room = r
                  /\ \E i \in PositionsOf(last'.emits, "user-left") :
                        /\ last'.emits[i].userCount = Len(rooms'[r].users)
                        /\ \A e \in Entries(rooms'[r].users) :
                              status'[e.socketId] = "open" => e.socketId \in last'.emits[i].to]_vars

\* C26: a chat-message for an existing room is the newest message of the
\* room's chat and is sent once, in one broadcast, to every connection the
\* room lists as a member, the sender included when it is one; as every
\* message is one broadcast in the order of the chat, all members see one order.
C26_ChatToEveryMember ==
    (last.ev = "chat-message" /\ last.room \in DOMAIN rooms) =>
        LET room == rooms[last.room]
        IN /\ Len(last.emits) = 1
           /\ last.emits[1].ev = "chat-message"
           /\ room.messages # <<>>
           /\ last.emits[1].message = room.messages[Len(room.messages)]
           /\ \A e \in Entries(room.users) :
                 status[e.socketId] = "open" => e.socketId \in last.emits[1].to

\* C27: the chat of every room holds at most 100 messages.
C27_ChatBounded ==
    \A r \in DOMAIN rooms : Len(rooms[r].messages) <= 100

\* a chat-message arrived at a room whose chat held 100 messages, and the chat
\* holds 100 messages
C27_Witness ==
    /\ last.ev = "chat-message"
    /\ last.room \in DOMAIN rooms
    /\ last.before = 100
    /\ Len(rooms[last.room].messages) = 100

\* ------------------------------------------------------------------------
\* Byte ranges
\* ------------------------------------------------------------------------

\* the range a request asks of a file of n bytes: its start, and its end or n - 1
RangeEnd(range, n) == IF "end" \in DOMAIN range THEN range.end ELSE n - 1

\* C28: a request for the bytes a..b of a stored file of n bytes, 0 <= a <= b < n
\* and b = n - 1 when the request names no end, is answered 206 with
\* Content-Range 'bytes a-b/n', Content-Length b - a + 1 and the stored bytes
\* at the offsets a..b.
C28_RangeServed ==
    (/\ last.ev = "GET /api/video"
     /\ "range" \in DOMAIN last
     /\ last.filename \in DOMAIN Uploads
     /\ last.range.start <= RangeEnd(last.range, last.filename)
     /\ RangeEnd(last.range, last.filename) < last.filename)
    => LET n == last.filename
           a == last.range.start
           b == RangeEnd(last.range, n)
       IN /\ last.res.status = 206
          /\ last.res.contentRange =
                <<"bytes", " ">> \o ToText(a) \o <<"-">> \o ToText(b) \o <<"/">> \o ToText(n)
          /\ last.res.contentLength = b - a + 1
          /\ last.res.body = [i \in 1..(b - a + 1) |-> ByteAt(a + i - 1)]

\* a range inside a file whose offsets have two digits, with an end and without
C28_Witness ==
    /\ last.ev = "GET /api/video"
    /\ "range" \in DOMAIN last
    /\ last.filename \in DOMAIN Uploads
    /\ last.range.start >= 10
    /\ last.range.start < RangeEnd(last.range, last.filename)
    /\ RangeEnd(last.range, last.filename) < last.filename
    /\ last.res.status = 206
    /\ Len(last.res.body) > 1

\* C29: a range request on a stored file whose start is at or beyond the size
\* of the file, or above its end, is answered 416.
C29_UnsatisfiableRange ==
    (/\ last.ev = "GET /api/video"
     /\ "range" \in DOMAIN last
     /\ last.filename \in DOMAIN Uploads
     /\ \/ last.range.start >= last.filename
        \/ last.range.start > RangeEnd(last.range, last.filename))
    => last.res.status = 416

\* ------------------------------------------------------------------------
\* Malformed messages
\* ------------------------------------------------------------------------

\* a step that handles a video-loaded without a video, or a video-state-update
\* without a state or without lastUpdatedBy
MalformedStep ==
    \/ \E s \in Sockets, r \in VideoRooms, u \in UserIds, exits \in BOOLEAN :
          VideoLoadedNoVideo(s, r, u, exits)
    \/ \E s \in Sockets, r \in VideoRooms, vs \in MalformedStates :
          VideoStateUpdate(s, r, vs, MaxTs)

\* C30: handling a malformed message leaves every room's members, chat,
\* current video and playback state as they were and sends nothing.
C30_MalformedDropped ==
    [][MalformedStep => (rooms' = rooms /\ last'.emits = <<>>)]_vars

\* ------------------------------------------------------------------------
\* The registry
\* ------------------------------------------------------------------------

\* C31: a room enters the registry only by a join-room for its code; a
\* leave-room, chat-message, video-loaded or video-state-update for a code that
\* is not in the registry leaves the registry as it is and sends nothing.
C31_OnlyJoinCreates ==
    [][/\ \A r \in DOMAIN rooms' \ DOMAIN rooms :
             last'.ev = "join-room" /\ last'.room = r
       /\ (/\ last'.ev \in {"leave-room", "chat-message", "video-loaded",
                            "video-state-update"}
           /\ last'.room \notin DOMAIN rooms)
          => (rooms' = rooms /\ last'.emits = <<>>)]_vars

\* a message for a code that is not in the registry arrived while another room
\* exists, and the code is still not in the registry
C31_Witness ==
    /\ last.ev \in {"leave-room", "chat-message", "video-loaded", "video-state-update"}
    /\ last.room \notin DOMAIN rooms
    /\ DOMAIN rooms # {}
    /\ last.emits = <<>>

\* ------------------------------------------------------------------------
\* The chat buffer
\* ------------------------------------------------------------------------

\* C32: the room-state of a join-room carries the most recent min(50, n) of the
\* room's n chat messages, in the order of the buffer.
C32_RoomStateSlice ==
    last.ev = "join-room" =>
        LET stored == rooms[last.room].messages
            n == Len(stored)
            k == IF n < 50 THEN n ELSE 50
        IN last.emits[1].messages = [i \in 1..k |-> stored[n - k + i]]

\* a join into a room that holds more than 50 messages
C32_Witness ==
    /\ last.ev = "join-room"
    /\ Len(rooms[last.room].messages) > 50
    /\ Len(last.emits[1].messages) = 50

\* C33: a chat-message appended to a buffer of 100 messages evicts exactly the
\* oldest one; the other 99 keep their order and the new message is last.
C33_OldestEvicted ==
    [][(/\ last'.ev = "chat-message"
        /\ last'.room \in DOMAIN rooms
        /\ Len(rooms[last'.room].messages) = 100)
       => rooms'[last'.room].messages =
             Append(Tail(rooms[last'.room].messages), last'.emits[1].message)]_vars

\* a message arrived at a buffer of 100 and the first message sent is gone
C33_Witness ==
    /\ last.ev = "chat-message"
    /\ last.room \in DOMAIN rooms
    /\ last.before = 100
    /\ rooms[last.room].messages[1].message > 1
    /\ rooms[last.room].messages[100] = last.emits[1].message

\* ------------------------------------------------------------------------
\* Membership under replaced connections and foreign messages
\* ------------------------------------------------------------------------

\* C34: when a connection closes whose userId has re-joined the room from a
\* newer connection, the room stays in the registry and every entry of another
\* connection stays in its list.
C34_ReplacedDisconnectHarmless ==
    [][last'.ev = "disconnect" =>
         \A r \in DOMAIN rooms :
            Superseded(last'.socket, r) =>
               \A e \in Entries(rooms[r].users) :
                  e.socketId # last'.socket =>
                     r \in DOMAIN rooms' /\ e \in Entries(rooms'[r].users)]_vars

\* C35: every entry of every room's member list names a connection that is
\* open, and when no connection is open the registry is empty.
C35_MembersAreOpen ==
    /\ \A r \in DOMAIN rooms :
          \A e \in Entries(rooms[r].users) : status[e.socketId] = "open"
    /\ (\A s \in Sockets : status[s] # "open") => rooms = <<>>

\* C36: a leave-room leaves every entry of a connection other than its sender
\* in its list and every room that lists such an entry in the registry.
C36_LeaveRemovesOwnOnly ==
    [][last'.ev = "leave-room" =>
         \A r \in DOMAIN rooms :
            \A e \in Entries(rooms[r].users) :
               e.socketId # last'.socket =>
                  r \in DOMAIN rooms' /\ e \in Entries(rooms'[r].users)]_vars

\* C37: a chat-message, video-loaded or video-state-update for an existing room
\* from a connection that the room does not list and that is not subscribed to
\* it changes no room and sends nothing.
C37_OnlyMembersDrive ==
    [][(/\ last'.ev \in {"chat-message", "video-loaded", "video-state-update"}
        /\ last'.room \in DOMAIN rooms
        /\ last'.room \notin adapter[last'.socket]
        /\ ~ListsSocket(rooms[last'.room].users, last'.socket))
       => (rooms' = rooms /\ last'.emits = <<>>)]_vars

\* ------------------------------------------------------------------------
\* Controls, timestamps and the apply-lock
\* ------------------------------------------------------------------------

\* C38: a play or pause of a page whose video is the current video of its room
\* puts no video-loaded on the wire.
C38_ControlNeverShares ==
    [][\A c \in Sockets :
          (/\ NativePlay(c) \/ NativePause(c)
           /\ cl[c].currentRoom \in DOMAIN rooms
           /\ rooms[cl[c].currentRoom].currentVideo = cl[c].currentVideo)
          => \A i \in 1..Len(up'[c]) : up'[c][i].ev # "video-loaded"]_vars

\* C39: a video-state-update whose timestamp is below the timestamp of the
\* room's stored state changes no room and is relayed to nobody, and no
\* video-state-update lowers the timestamp of the room's stored state.
C39_TimestampNeverDecreases ==
    [][/\ \A s \in Sockets, r \in VideoRooms, vs \in VideoStates :
             (/\ r \in DOMAIN rooms
              /\ TimestampOf(vs) # 0
              /\ TimestampOf(vs) < TimestampOf(rooms[r].videoState)
              /\ VideoStateUpdate(s, r, vs, MaxTs))
             => (rooms' = rooms /\ last'.emits = <<>>)
       /\ (last'.ev = "video-state-update" /\ last'.room \in DOMAIN rooms)
          => TimestampOf(rooms'[last'.room].videoState)
                >= TimestampOf(rooms[last'.room].videoState)]_vars

\* C40: whenever syncV2.applying is set it is clear again later, also after an
\* apply in which the player threw.
C40_LockReleased ==
    \A c \in Sockets : cl[c].applying ~> ~cl[c].applying

\* the player threw during an apply, and the lock that apply took is released
C40_Witness ==
    \E c \in Sockets :
        /\ last = [ev |-> "apply-threw", socket |-> c]
        /\ ~cl[c].applying
        /\ [kind |-> "release"] \notin cl[c].timers

====
